---- MODULE Spec2Model ----
(***************************************************************************)
(* A model of the preview server of doctave (src/src/preview_server.rs):   *)
(* PreviewServer::new / run, handle_request, resolve_file and              *)
(* content_type_for.                                                       *)
(*                                                                         *)
(* A path text is a sequence of symbols.  "/" and "." are the two          *)
(* characters the code inspects; every other symbol ("a", "html", "index", *)
(* "PDF", ...) stands for a fixed run of characters holding neither.       *)
(***************************************************************************)
EXTENDS Integers, Sequences, FiniteSets, TLC

Sep == "/"
Dot == "."

\* Option<T> is a sequence of at most one element.
None == << >>
Some(x) == << x >>
IsSome(o) == o # << >>
Unwrap(o) == o[1]

-----------------------------------------------------------------------------
(* Text helpers *)

FirstSep(t) ==
    IF \E i \in DOMAIN t : t[i] = Sep
    THEN CHOOSE i \in DOMAIN t : t[i] = Sep /\ \A j \in 1..(i - 1) : t[j] # Sep
    ELSE 0

LastSep(t) ==
    IF \E i \in DOMAIN t : t[i] = Sep
    THEN CHOOSE i \in DOMAIN t : t[i] = Sep /\ \A j \in (i + 1)..Len(t) : t[j] # Sep
    ELSE 0

LastDot(t) ==
    IF \E i \in DOMAIN t : t[i] = Dot
    THEN CHOOSE i \in DOMAIN t : t[i] = Dot /\ \A j \in (i + 1)..Len(t) : t[j] # Dot
    ELSE 0

\* str::contains("..") of line 82
ContainsDotDot(t) == \E i \in 1..(Len(t) - 1) : t[i] = Dot /\ t[i + 1] = Dot

\* std::path: a component that Components skips ("" and ".")
SkippedComponent(c) == c = << >> \/ c = << Dot >>

\* std::path Components::trim_left: drop leading skipped components
RECURSIVE TrimLeft(_)
TrimLeft(t) ==
    IF t = << >> THEN t
    ELSE LET i    == FirstSep(t)
             comp == IF i = 0 THEN t ELSE SubSeq(t, 1, i - 1)
             size == IF i = 0 THEN Len(t) ELSE i
         IN  IF SkippedComponent(comp)
             THEN TrimLeft(SubSeq(t, size + 1, Len(t)))
             ELSE t

\* std::path Components::trim_right: drop trailing skipped components
RECURSIVE TrimRight(_)
TrimRight(t) ==
    IF t = << >> THEN t
    ELSE LET i    == LastSep(t)
             comp == SubSeq(t, i + 1, Len(t))
             size == Len(comp) + (IF i = 0 THEN 0 ELSE 1)
         IN  IF SkippedComponent(comp)
             THEN TrimRight(SubSeq(t, 1, Len(t) - size))
             ELSE t

\* lines 86-87 and components.as_path() of line 88: the text left after the
\* first component has been consumed by components.next()
AfterFirstComponent(t) ==
    IF t = << >> THEN t
    ELSE IF Head(t) = Sep
         THEN TrimRight(TrimLeft(Tail(t)))                       \* RootDir
    ELSE IF Head(t) = Dot /\ (Len(t) = 1 \/ t[2] = Sep)
         THEN TrimRight(TrimLeft(Tail(t)))                       \* CurDir
    ELSE LET i == FirstSep(t)                                    \* Normal / ParentDir
         IN  IF i = 0 THEN << >>
             ELSE TrimRight(TrimLeft(SubSeq(t, i + 1, Len(t))))

\* Path::join (PathBuf::push): an absolute argument replaces the base,
\* otherwise a separator is added unless the base already ends with one
PathJoin(base, rel) ==
    IF rel # << >> /\ Head(rel) = Sep THEN rel
    ELSE IF base # << >> /\ base[Len(base)] # Sep THEN base \o << Sep >> \o rel
    ELSE base \o rel

\* The body of a path text: what follows the root separator
BodyStart(t) == IF t # << >> /\ Head(t) = Sep THEN 2 ELSE 1

\* Path::file_name as the span [from, to] of the last component in the text,
\* << >> when the path ends in the root or in ".."
FileNameSpan(t) ==
    LET b == BodyStart(t)
        r == TrimRight(SubSeq(t, b, Len(t)))
        i == LastSep(r)
    IN  IF r = << >> THEN None
        ELSE IF SubSeq(r, i + 1, Len(r)) = << Dot, Dot >> THEN None
        ELSE Some([from |-> b + i, to |-> b - 1 + Len(r)])

FileName(t) ==
    LET s == FileNameSpan(t)
    IN  IF IsSome(s) THEN Some(SubSeq(t, Unwrap(s).from, Unwrap(s).to)) ELSE None

\* std::path rsplit_file_at_dot: the length of the file stem of a file name
StemLen(name) ==
    LET j == LastDot(name)
    IN  IF j = 0 \/ j = 1 THEN Len(name) ELSE j - 1

\* Path::extension: the text after the last dot of the file name, None when
\* the name has no dot or only a leading one
Extension(t) ==
    LET n == FileName(t)
    IN  IF ~IsSome(n) THEN None
        ELSE LET name == Unwrap(n)
                 j    == LastDot(name)
             IN  IF j = 0 \/ j = 1 THEN None
                 ELSE Some(SubSeq(name, j + 1, Len(name)))

\* A variant of SetExtension that forgets the dot before the extension
SetExtensionNoDot(t, ext) ==
    LET s == FileNameSpan(t)
    IN  IF ~IsSome(s) THEN t
        ELSE LET from == Unwrap(s).from
                 name == SubSeq(t, from, Unwrap(s).to)
             IN  SubSeq(t, 1, from - 1 + StemLen(name)) \o ext

\* A variant of SetExtension that appends "." and the extension to the file
\* name
SetExtensionAppend(t, ext) ==
    LET s == FileNameSpan(t)
    IN  IF ~IsSome(s) THEN t
        ELSE SubSeq(t, 1, Unwrap(s).to) \o << Dot >> \o ext

\* PathBuf::set_extension: truncate right after the file stem, then add
\* "." and the extension; no change when the path has no file name
SetExtension(t, ext) ==
    LET s == FileNameSpan(t)
    IN  IF ~IsSome(s) THEN t
        ELSE LET from == Unwrap(s).from
                 name == SubSeq(t, from, Unwrap(s).to)
                 keep == SubSeq(t, 1, from - 1 + StemLen(name))
             IN  IF ext = << >> THEN keep ELSE keep \o << Dot >> \o ext

-----------------------------------------------------------------------------
(* The filesystem: a function from node paths (sequences of names, a name  *)
(* being a text without "/") to nodes.  << >> is the directory "/".        *)

VARIABLES
    pc,         \* position of the thread that calls new() and run()
    fs,         \* the filesystem
    jobs,       \* jobs[i]: the i-th accepted request and its handling
    stdout,     \* number of startup lines written
    stderr      \* number of lines written by eprintln! (line 77)

vars == << pc, fs, jobs, stdout, stderr >>

RECURSIVE Split(_)
Split(t) ==
    LET i == FirstSep(t)
    IN  IF i = 0 THEN << t >>
        ELSE << SubSeq(t, 1, i - 1) >> \o Split(SubSeq(t, i + 1, Len(t)))

\* Path resolution by the operating system, from the node cur along the
\* components comps: "" and "." stay, ".." goes to the parent, a name goes
\* to the child; every step needs cur to be a directory.
RECURSIVE Walk(_, _, _)
Walk(f, cur, comps) ==
    IF comps = << >> THEN Some(cur)
    ELSE IF f[cur].kind # "dir" THEN None
    ELSE LET c == Head(comps)
         IN  IF SkippedComponent(c) THEN Walk(f, cur, Tail(comps))
             ELSE IF c = << Dot, Dot >>
                  THEN Walk(f, IF cur = << >> THEN cur ELSE SubSeq(cur, 1, Len(cur) - 1),
                            Tail(comps))
             ELSE IF (cur \o << c >>) \in DOMAIN f
                  THEN Walk(f, cur \o << c >>, Tail(comps))
             ELSE None

\* The node an absolute path text names in filesystem f, None if there is none
Lookup(f, t) == Walk(f, << >>, Split(t))

\* Path::exists, Path::is_file, Path::is_dir
Exists(f, t) == IsSome(Lookup(f, t))
IsFile(f, t) == IsSome(Lookup(f, t)) /\ f[Unwrap(Lookup(f, t))].kind = "file"
IsDir(f, t)  == IsSome(Lookup(f, t)) /\ f[Unwrap(Lookup(f, t))].kind = "dir"

-----------------------------------------------------------------------------
(* content_type_for and resolve_file *)

\* A variant of content_type_for that matches the extension in any case
content_type_ignoring_case(extension) ==
    IF ~IsSome(extension) THEN None
    ELSE LET s == Unwrap(extension)
         IN  CASE s \in { << "txt" >>, << "TXT" >> }   -> Some("text/plain; charset=utf8")
               [] s \in { << "html" >>, << "HTML" >> } -> Some("text/html; charset=utf8")
               [] s \in { << "htm" >>, << "HTM" >> }   -> Some("text/html; charset=utf8")
               [] s \in { << "css" >>, << "CSS" >> }   -> Some("text/css")
               [] s \in { << "js" >>, << "JS" >> }     -> Some("text/javascript")
               [] s \in { << "pdf" >>, << "PDF" >> }   -> Some("application/pdf")
               [] s \in { << "zip" >>, << "ZIP" >> }   -> Some("application/zip")
               [] s \in { << "jpg" >>, << "JPG" >> }   -> Some("image/jpeg")
               [] s \in { << "jpeg" >>, << "JPEG" >> } -> Some("image/jpeg")
               [] s \in { << "png" >>, << "PNG" >> }   -> Some("image/png")
               [] s \in { << "svg" >>, << "SVG" >> }   -> Some("image/svg+xml")
               [] OTHER                               -> None

content_type_for(extension) ==
    IF ~IsSome(extension) THEN None
    ELSE LET s == Unwrap(extension)
         IN  CASE s = << "txt" >>  -> Some("text/plain; charset=utf8")
               [] s = << "html" >> -> Some("text/html; charset=utf8")
               [] s = << "htm" >>  -> Some("text/html; charset=utf8")
               [] s = << "css" >>  -> Some("text/css")
               [] s = << "js" >>   -> Some("text/javascript")
               [] s = << "pdf" >>  -> Some("application/pdf")
               [] s = << "zip" >>  -> Some("application/zip")
               [] s = << "jpg" >>  -> Some("image/jpeg")
               [] s = << "jpeg" >> -> Some("image/jpeg")
               [] s = << "png" >>  -> Some("image/png")
               [] s = << "svg" >>  -> Some("image/svg+xml")
               [] OTHER            -> None

\* A variant of the traversal guard that rejects only a ".." path segment
TraversalGuardSegments(path) ==
    \E k \in DOMAIN Split(path) : Split(path)[k] = << Dot, Dot >>

\* line 82: the traversal guard
TraversalGuard(path) == ContainsDotDot(path)

\* A variant of Candidate that joins the request path as it is
CandidateNotStripped(path, out_dir) == PathJoin(out_dir, path)

\* lines 86-88: the candidate path
Candidate(path, out_dir) == PathJoin(out_dir, AfterFirstComponent(path))

\* A variant of the fallback that serves the candidate itself when the
\* .html path does not exist
HtmlFallbackKeepsCandidate(f, candidate) ==
    LET p == SetExtension(candidate, << "html" >>)
    IN  IF Exists(f, p)
        THEN Some([path |-> p, content_type |-> content_type_for(Extension(p))])
        ELSE IF Exists(f, candidate)
        THEN Some([path |-> candidate,
                   content_type |-> content_type_for(Extension(candidate))])
        ELSE None

\* lines 99-105: the .html fallback
HtmlFallback(f, candidate) ==
    LET p == SetExtension(candidate, << "html" >>)
    IN  IF Exists(f, p)
        THEN Some([path |-> p, content_type |-> content_type_for(Extension(p))])
        ELSE None

\* A variant of resolve_file without the index.html step
resolve_file_no_index(f, path, out_dir) ==
    IF TraversalGuard(path) THEN None
    ELSE LET candidate == Candidate(path, out_dir)
         IN  IF IsFile(f, candidate) /\ Exists(f, candidate)
             THEN Some([path |-> candidate,
                        content_type |-> content_type_for(Extension(candidate))])
             ELSE HtmlFallback(f, candidate)

\* A variant of resolve_file that consults the .html fallback first
resolve_file_fallback_first(f, path, out_dir) ==
    IF TraversalGuard(path) THEN None
    ELSE LET candidate == Candidate(path, out_dir)
             fallback  == HtmlFallback(f, candidate)
         IN  IF IsSome(fallback) THEN fallback
             ELSE IF IsFile(f, candidate) /\ Exists(f, candidate)
             THEN Some([path |-> candidate,
                        content_type |-> content_type_for(Extension(candidate))])
             ELSE IF IsDir(f, candidate)
                     /\ Exists(f, PathJoin(candidate, << "index", Dot, "html" >>))
             THEN LET p == PathJoin(candidate, << "index", Dot, "html" >>)
                  IN  Some([path |-> p, content_type |-> content_type_for(Extension(p))])
             ELSE None

\* lines 81-107
resolve_file(f, path, out_dir) ==
    IF TraversalGuard(path) THEN None
    ELSE LET candidate == Candidate(path, out_dir)
         IN  IF IsFile(f, candidate) /\ Exists(f, candidate)
             THEN Some([path |-> candidate,
                        content_type |-> content_type_for(Extension(candidate))])
             ELSE IF IsDir(f, candidate)
                     /\ Exists(f, PathJoin(candidate, << "index", Dot, "html" >>))
             THEN LET p == PathJoin(candidate, << "index", Dot, "html" >>)
                  IN  Some([path |-> p, content_type |-> content_type_for(Extension(p))])
             ELSE HtmlFallback(f, candidate)

-----------------------------------------------------------------------------
(* Configuration, inputs and bounds *)

MaxLen      == 5     \* longest request URL drawn from the alphabet, in symbols
MaxRequests == 2     \* requests accepted in one run
PoolSize    == 16    \* scoped_threadpool::Pool::new(16)

\* self.out_dir: the directory being served, an absolute path
OutDir == << Sep, "site" >>

Alphabet == { Sep, Dot, "a", "html" }

Texts(n) == UNION { [1..k -> Alphabet] : k \in 0..n }

\* Names used by the filesystems below
nSite    == << "site" >>
nA       == << "a" >>
nAHtml   == << "a", Dot, "html" >>
nIndex   == << "index", Dot, "html" >>
nSiteHtm == << "site", Dot, "html" >>
nAA      == << "a", Dot, "a" >>
nAAHtml  == << "a", Dot, "a", Dot, "html" >>
nADDA    == << "a", Dot, Dot, "a" >>
nAPDF    == << "a", Dot, "PDF" >>
nApdf    == << "a", Dot, "pdf" >>

\* request.url(): origin-form request targets over the alphabet, and URLs
\* aimed at the files of the filesystems below, at a query string and at a
\* character http::Uri rejects ("<")
Urls ==
    { << Sep >> \o t : t \in Texts(MaxLen - 1) }
    \cup { << Sep >> \o nIndex, << Sep >> \o nA \o << Sep >> \o nIndex,
           << Sep >> \o nA \o << Sep >> \o nAHtml,
           << Sep >> \o nAPDF, << Sep >> \o nApdf, << Sep >> \o nAAHtml,
           << Sep >> \o nADDA, << Sep >> \o nADDA \o << Sep >>,
           << Sep >> \o nADDA \o << Sep >> \o nIndex,
           << Sep, Dot, Dot, Sep >> \o nIndex,
           << Sep, Dot, Dot, Sep >> \o nSiteHtm,
           << Sep, "a", "?", Dot, Dot >>, << Sep, "?", "a" >>,
           << Sep, "<" >>, << Sep, "a", "<" >> }

\* line 56: request.url().parse::<http::Uri>() and uri.path(): the parse
\* fails on a character that is not allowed in a URI; the path is the text
\* before the query string
ParseUriPath(url) ==
    IF \E i \in DOMAIN url : url[i] = "<" THEN None
    ELSE IF \E i \in DOMAIN url : url[i] = "?"
         THEN Some(SubSeq(url, 1,
                  (CHOOSE i \in DOMAIN url :
                      url[i] = "?" /\ \A j \in 1..(i - 1) : url[j] # "?") - 1))
    ELSE Some(url)

Dir(p)     == p :> [kind |-> "dir", data |-> "-"]
File(p, d) == p :> [kind |-> "file", data |-> d]

\* "/", the served directory "/site" and a file outside of it
FsBase == Dir(<< >>) @@ Dir(<< nSite >>) @@ File(<< nIndex >>, "outside")

\* the example of the specification: an index page and a page in a directory
FsExample ==
    FsBase @@ File(<< nSite, nIndex >>, "Hello") @@ Dir(<< nSite, nA >>)
           @@ File(<< nSite, nA, nAHtml >>, "Guide")

\* no index page; a file and its .html namesake; a file /site.html next to
\* the served directory
FsSibling ==
    FsBase @@ File(<< nSiteHtm >>, "Sibling") @@ File(<< nSite, nA >>, "Plain")
           @@ File(<< nSite, nAHtml >>, "Page")

\* directories without an index page, one of them with a dotted name
FsDirs ==
    FsBase @@ File(<< nSite, nIndex >>, "Hello") @@ Dir(<< nSite, nA >>)
           @@ File(<< nSite, nAHtml >>, "Page") @@ Dir(<< nSite, nAA >>)

\* dotted names, a name holding "..", upper and lower case extensions
FsDotted ==
    FsBase @@ File(<< nSite, nAAHtml >>, "Dotted") @@ Dir(<< nSite, nADDA >>)
           @@ File(<< nSite, nADDA, nIndex >>, "DotDot")
           @@ File(<< nSite, nAPDF >>, "Upper") @@ File(<< nSite, nApdf >>, "Lower")

\* directories named index.html and a.html
FsHtmlDirs ==
    FsBase @@ Dir(<< nSite, nA >>) @@ Dir(<< nSite, nA, nIndex >>)
           @@ Dir(<< nSite, nAHtml >>)

\* a directory with an index page and an .html namesake next to it
FsOrder ==
    FsBase @@ Dir(<< nSite, nA >>) @@ File(<< nSite, nA, nIndex >>, "Index")
           @@ File(<< nSite, nAHtml >>, "Page")

FsCatalog == { FsExample, FsSibling, FsDirs, FsDotted, FsHtmlDirs, FsOrder }

-----------------------------------------------------------------------------
(* The server *)

\* request.method(): handle_request never reads it
Methods == { "GET", "POST" }

NewJob(url, method) ==
    [stage |-> "accepted", url |-> url, method |-> method, target |-> None,
     response |-> None, result |-> "none", opened |-> None, written |-> 0]

\* A variant of ReturnedJob in which the handler does not return
ReturnedJobStuck(j) == [j EXCEPT !.result = "none"]

\* What is kept of a job once its handler has returned
ReturnedJob(j) ==
    [stage |-> "returned", url |-> << >>, target |-> None, response |-> None,
     result |-> "none", opened |-> None, written |-> j.written]

Running(j) == j.stage \in { "resolved", "responded" }

\* pool threads that are executing a handler, and pool threads that died
Busy == Cardinality({ i \in DOMAIN jobs : Running(jobs[i]) })
Dead == Cardinality({ i \in DOMAIN jobs : jobs[i].stage = "panicked" })

Init ==
    /\ pc = "new"
    /\ fs \in FsCatalog
    /\ jobs = << >>
    /\ stdout = 0
    /\ stderr = 0

\* lines 17-23: addr.parse().expect(..) panics on a malformed address
New ==
    /\ pc = "new"
    /\ \E valid \in BOOLEAN : pc' = IF valid THEN "constructed" ELSE "exit_new"
    /\ UNCHANGED << fs, jobs, stdout, stderr >>

\* line 26: Server::http(..).unwrap() panics when the bind fails
Bind ==
    /\ pc = "constructed"
    /\ \E bound \in BOOLEAN : pc' = IF bound THEN "bound" ELSE "exit_bind"
    /\ UNCHANGED << fs, jobs, stdout, stderr >>

\* A variant of Banner that may enter the loop without writing the startup
\* line
BannerSkipped ==
    /\ pc = "bound"
    /\ \/ stdout' = stdout + 1 /\ pc' = "accept"
       \/ stdout' = stdout /\ pc' = "accept"
       \/ stdout' = stdout /\ pc' = "exit_banner"
    /\ UNCHANGED << fs, jobs, stderr >>

\* lines 27-42: the pool is created and the startup line is written;
\* .unwrap() of line 41 panics when the write to stdout fails
Banner ==
    /\ pc = "bound"
    /\ \/ stdout' = stdout + 1 /\ pc' = "accept"
       \/ stdout' = stdout /\ pc' = "exit_banner"
    /\ UNCHANGED << fs, jobs, stderr >>

\* A variant of Accept in which the loop may take the next request before
\* it has handed the one it holds to the pool
AcceptAhead ==
    /\ pc = "accept"
    /\ Len(jobs) < MaxRequests
    /\ \E url \in Urls, method \in Methods : jobs' = Append(jobs, NewJob(url, method))
    /\ \E ahead \in BOOLEAN : pc' = IF ahead THEN "accept" ELSE "submit"
    /\ UNCHANGED << fs, stdout, stderr >>

\* line 44: server.incoming_requests() yields the next request
Accept ==
    /\ pc = "accept"
    /\ Len(jobs) < MaxRequests
    /\ \E url \in Urls, method \in Methods : jobs' = Append(jobs, NewJob(url, method))
    /\ pc' = "submit"
    /\ UNCHANGED << fs, stdout, stderr >>

\* A variant of Submit that runs the handler on a thread of its own instead of
\* the pool, and does not wait for it: the request is answered 404 at once
SubmitSpawn ==
    /\ pc = "submit"
    /\ jobs' = [jobs EXCEPT ![Len(jobs)] =
           [@ EXCEPT !.stage = "responded",
                     !.response = Some([status |-> 404, content_type |-> None,
                                        body |-> None]),
                     !.result = "ok", !.written = 1]]
    /\ pc' = "accept"
    /\ UNCHANGED << fs, stdout, stderr >>

\* lines 45-48: scope.execute sends the closure to the pool's channel
\* (an unbounded channel: the send never blocks)
Submit ==
    /\ pc = "submit"
    /\ jobs' = [jobs EXCEPT ![Len(jobs)].stage = "queued"]
    /\ pc' = "join"
    /\ UNCHANGED << fs, stdout, stderr >>

\* tiny_http: a Request dropped without a response answers 500
DroppedResponse == [status |-> 500, content_type |-> None, body |-> None]

\* A variant of Start that resolves only GET requests and answers NotFound
\* to every other method
StartGetOnly(i) ==
    /\ jobs[i].stage = "queued"
    /\ Busy + Dead < PoolSize
    /\ LET path == ParseUriPath(jobs[i].url)
       IN  jobs' = [jobs EXCEPT ![i] =
               IF IsSome(path)
               THEN [@ EXCEPT !.stage = "resolved",
                              !.target = IF jobs[i].method = "GET"
                                         THEN resolve_file(fs, Unwrap(path), OutDir)
                                         ELSE None]
               ELSE [@ EXCEPT !.stage = "panicked",
                              !.response = Some(DroppedResponse),
                              !.written = @ + 1]]
    /\ UNCHANGED << pc, fs, stdout, stderr >>

\* lines 54-58: a free pool thread takes the job and runs handle_request up
\* to the resolution; .unwrap() panics when the URL does not parse, and the
\* unwinding drops the request
Start(i) ==
    /\ jobs[i].stage = "queued"
    /\ Busy + Dead < PoolSize
    /\ LET path == ParseUriPath(jobs[i].url)
       IN  jobs' = [jobs EXCEPT ![i] =
               IF IsSome(path)
               THEN [@ EXCEPT !.stage = "resolved",
                              !.target = resolve_file(fs, Unwrap(path), OutDir)]
               ELSE [@ EXCEPT !.stage = "panicked",
                              !.response = Some(DroppedResponse),
                              !.written = @ + 1]]
    /\ UNCHANGED << pc, fs, stdout, stderr >>

\* The outcomes of request.respond
RespondResults == { "ok", "broken_pipe", "io_error" }

\* lines 58-71: File::open(f).unwrap() and request.respond(..)
Respond(i) ==
    /\ jobs[i].stage = "resolved"
    /\ LET j == jobs[i]
       IN  IF ~IsSome(j.target)
           THEN \* line 70
                \E r \in RespondResults :
                    jobs' = [jobs EXCEPT ![i] =
                        [j EXCEPT !.stage = "responded",
                                  !.response = Some([status |-> 404,
                                                     content_type |-> None,
                                                     body |-> None]),
                                  !.result = r, !.written = @ + 1]]
           ELSE LET t    == Unwrap(j.target)
                    node == Lookup(fs, t.path)
                    panic == [j EXCEPT !.stage = "panicked",
                                       !.response = Some(DroppedResponse),
                                       !.written = @ + 1]
                IN  IF ~IsSome(node)
                    THEN \* File::open fails: the file is gone
                         jobs' = [jobs EXCEPT ![i] = panic]
                    ELSE IF fs[Unwrap(node)].kind = "dir"
                    THEN \* a directory: File::open fails, or it succeeds and
                         \* reading the body fails inside respond
                         \/ jobs' = [jobs EXCEPT ![i] = panic]
                         \/ jobs' = [jobs EXCEPT ![i] =
                               [j EXCEPT !.stage = "responded",
                                         !.opened = node,
                                         !.response = Some([status |-> 200,
                                             content_type |-> t.content_type,
                                             body |-> None]),
                                         !.result = "io_error", !.written = @ + 1]]
                    ELSE \E r \in RespondResults :
                         jobs' = [jobs EXCEPT ![i] =
                               [j EXCEPT !.stage = "responded",
                                         !.opened = node,
                                         !.response = Some([status |-> 200,
                                             content_type |-> t.content_type,
                                             body |-> Some(fs[Unwrap(node)].data)]),
                                         !.result = r, !.written = @ + 1]]
    /\ UNCHANGED << pc, fs, stdout, stderr >>

\* A variant of Return that logs every failed respond, the broken pipe
\* included
ReturnLogsBrokenPipe(i) ==
    /\ jobs[i].stage = "responded"
    /\ stderr' = IF jobs[i].result # "ok" THEN stderr + 1 ELSE stderr
    /\ jobs' = [jobs EXCEPT ![i] = ReturnedJob(@)]
    /\ UNCHANGED << pc, fs, stdout >>

\* lines 74-79: the result is classified, the handler returns and the pool
\* thread is free again
Return(i) ==
    /\ jobs[i].stage = "responded"
    /\ stderr' = IF jobs[i].result = "io_error" THEN stderr + 1 ELSE stderr
    /\ jobs' = [jobs EXCEPT ![i] = ReturnedJob(@)]
    /\ UNCHANGED << pc, fs, stdout >>

\* True when the scope of line 45 may end: scoped_threadpool joins every job
\* of the scope when the scope is dropped
ScopeJoined == \A i \in DOMAIN jobs : jobs[i].stage \in { "returned", "panicked" }

\* lines 45-49: pool.scoped returns after join_all, which panics
\* ("Thread pool worker panicked") when a pool thread has panicked
JoinAll ==
    /\ pc = "join"
    /\ ScopeJoined
    /\ pc' = IF Dead > 0 THEN "panicked" ELSE "accept"
    /\ UNCHANGED << fs, jobs, stdout, stderr >>

\* The environment: the file a handler has resolved is removed before the
\* handler opens it
FileDisappears(i) ==
    /\ jobs[i].stage = "resolved"
    /\ IsSome(jobs[i].target)
    /\ IsFile(fs, Unwrap(jobs[i].target).path)
    /\ LET node == Unwrap(Lookup(fs, Unwrap(jobs[i].target).path))
       IN  fs' = [p \in DOMAIN fs \ { node } |-> fs[p]]
    /\ UNCHANGED << pc, jobs, stdout, stderr >>

Next ==
    \/ New
    \/ Bind
    \/ Banner
    \/ Accept
    \/ Submit
    \/ \E i \in DOMAIN jobs : Start(i)
    \/ \E i \in DOMAIN jobs : Respond(i)
    \/ \E i \in DOMAIN jobs : Return(i)
    \/ JoinAll
    \/ \E i \in DOMAIN jobs : FileDisappears(i)

Spec == Init /\ [][Next]_vars

-----------------------------------------------------------------------------
(* Vocabulary of the properties *)

\* the request path of a job whose URL parsed
Parsed(j)  == IsSome(ParseUriPath(j.url))
PathOf(j)  == Unwrap(ParseUriPath(j.url))

\* the job has been through resolve_file / through request.respond
Resolved(j)  == j.stage \in { "resolved", "responded" }
Responded(j) == j.stage = "responded"
StatusOf(j)  == Unwrap(j.response).status

\* the text "name/name/..." of the names n[from..Len(n)] of a node
RECURSIVE NamesText(_, _)
NamesText(n, from) ==
    IF from > Len(n) THEN << >>
    ELSE IF from = Len(n) THEN n[from]
    ELSE n[from] \o << Sep >> \o NamesText(n, from + 1)

\* nodes of the served directory, and a node's path relative to it
UnderRoot(n) == Len(n) >= 2 /\ n[1] = nSite
RelText(n)   == NamesText(n, 2)

\* the resolved file was removed after the resolution
Raced(j) == IsSome(j.target) /\ ~Exists(fs, Unwrap(j.target).path)

\* the node a job's resolution returned
TargetNode(j) == Lookup(fs, Unwrap(j.target).path)

TextHtml == "text/html; charset=utf8"

-----------------------------------------------------------------------------
(* Properties *)

\* C1: a request whose path contains ".." anywhere resolves to NotFound,
\* whatever the filesystem holds; no file is opened for it and the response
\* handed to respond is 404.
C1_TraversalNotFound ==
    \A i \in DOMAIN jobs :
        LET j == jobs[i]
        IN  (Resolved(j) /\ Parsed(j)
             /\ \E k \in 1..(Len(PathOf(j)) - 1) :
                    PathOf(j)[k] = Dot /\ PathOf(j)[k + 1] = Dot)
            => /\ j.target = None
               /\ j.opened = None
               /\ Responded(j) => StatusOf(j) = 404

\* C1 witness: a request with ".." in its path, whose candidate path names
\* an existing file, has been answered.
C1_Witness ==
    \E i \in DOMAIN jobs :
        /\ Responded(jobs[i])
        /\ ContainsDotDot(PathOf(jobs[i]))
        /\ IsFile(fs, OutDir \o PathOf(jobs[i]))
        /\ StatusOf(jobs[i]) = 404

\* a path text lies lexically inside the directory text root
LexicallyInside(t, root) ==
    /\ Len(t) > Len(root) + 1
    /\ SubSeq(t, 1, Len(root)) = root
    /\ t[Len(root) + 1] = Sep

\* C2: every path resolve_file returns as servable lies lexically inside
\* the served directory.
C2_Containment ==
    \A i \in DOMAIN jobs :
        IsSome(jobs[i].target) => LexicallyInside(Unwrap(jobs[i].target).path, OutDir)

\* C3: no failure while handling a request stops the accept loop; the thread
\* that runs it ends only through a failed address parse or a failed bind.
C3_FailureIsolation == pc # "panicked"

\* C4: the accept loop waits for the pool only when all PoolSize workers are
\* busy; with fewer busy it goes on to accept the next request.
C4_WaitsOnlyWhenSaturated ==
    (pc = "join" /\ ~ScopeJoined /\ Busy > 0) => Busy = PoolSize

\* C5: a request for /p, p the path of a regular file f of the served
\* directory and p without "..", resolves to f and is answered with 200 and
\* the content of f.
C5_FileServed ==
    \A i \in DOMAIN jobs : \A n \in DOMAIN fs :
        LET j == jobs[i]
        IN  (/\ j.stage \in { "resolved", "responded", "panicked" }
             /\ Parsed(j)
             /\ UnderRoot(n) /\ fs[n].kind = "file"
             /\ ~ContainsDotDot(RelText(n))
             /\ PathOf(j) = << Sep >> \o RelText(n))
            => /\ j.stage # "panicked"
               /\ IsSome(j.target) /\ TargetNode(j) = Some(n)
               /\ Responded(j) =>
                    /\ j.opened = Some(n)
                    /\ Unwrap(j.response) =
                         [status |-> 200,
                          content_type |-> Unwrap(j.target).content_type,
                          body |-> Some(fs[n].data)]

\* C5 witness: the file a/a.html of the served directory has been served.
C5_Witness ==
    \E i \in DOMAIN jobs :
        /\ Responded(jobs[i])
        /\ PathOf(jobs[i]) = << Sep >> \o nA \o << Sep >> \o nAHtml
        /\ StatusOf(jobs[i]) = 200
        /\ Unwrap(jobs[i].response).body = Some("Guide")


\* the request paths that name the directory node d of the served directory:
\* its relative path with or without a trailing slash, "/" for the directory
\* itself
DirRequestPaths(d) ==
    IF Len(d) = 1 THEN { << Sep >> }
    ELSE { << Sep >> \o RelText(d), << Sep >> \o RelText(d) \o << Sep >> }

\* directories of the served directory (itself included) holding a regular
\* file index.html
IndexedDirs ==
    { d \in DOMAIN fs :
        /\ Len(d) >= 1 /\ d[1] = nSite /\ fs[d].kind = "dir"
        /\ (d \o << nIndex >>) \in DOMAIN fs
        /\ fs[d \o << nIndex >>].kind = "file" }

\* the job i, a request for the directory d, resolved to d/index.html with
\* the content type text/html, and was answered so
IndexServed(i, d) ==
    LET j == jobs[i]
    IN  (j.stage \in { "resolved", "responded", "panicked" } /\ Parsed(j)
         /\ PathOf(j) \in DirRequestPaths(d))
        => /\ j.stage # "panicked"
           /\ IsSome(j.target)
           /\ TargetNode(j) = Some(d \o << nIndex >>)
           /\ Unwrap(j.target).content_type = Some(TextHtml)
           /\ Responded(j) =>
                /\ StatusOf(j) = 200
                /\ Unwrap(j.response).content_type = Some(TextHtml)

\* C6 as claimed: a request for any directory d of the served directory that
\* holds index.html, with or without trailing slash, resolves to
\* d/index.html and is served as text/html.
C6_Original ==
    \A i \in DOMAIN jobs : \A d \in IndexedDirs : IndexServed(i, d)

\* C6 amended: a request for a directory d of the served directory that
\* holds index.html and whose path does not contain "..", with or without
\* trailing slash, resolves to d/index.html and is served as text/html.
C6_IndexServed ==
    \A i \in DOMAIN jobs : \A d \in IndexedDirs :
        ~ContainsDotDot(RelText(d)) => IndexServed(i, d)

\* C6 witness: the request "/" has been answered with the index.html of the
\* served directory.
C6_Witness ==
    \E i \in DOMAIN jobs :
        /\ Responded(jobs[i])
        /\ PathOf(jobs[i]) = << Sep >>
        /\ jobs[i].opened = Some(<< nSite, nIndex >>)
        /\ Unwrap(jobs[i].response).content_type = Some(TextHtml)

\* The job i, a request for /x where nothing exists at x and x.html is a
\* regular file, resolved to x.html and was answered 200.
FallbackServed(i) ==
    LET j  == jobs[i]
        x  == Tail(PathOf(j))
        xh == OutDir \o << Sep >> \o x \o << Dot, "html" >>
    IN  /\ j.stage # "panicked"
        /\ IsSome(j.target)
        /\ TargetNode(j) = Lookup(fs, xh)
        /\ Responded(j) => StatusOf(j) = 200

\* The job i is a request for /x, x not empty, where nothing exists at x
\* under the served directory and x.html is a regular file (the filesystem
\* being the one the resolution saw).
FallbackCase(i) ==
    LET j == jobs[i]
    IN  /\ j.stage \in { "resolved", "responded", "panicked" } /\ Parsed(j)
        /\ ~Raced(j)
        /\ Len(PathOf(j)) >= 2
        /\ ~Exists(fs, OutDir \o PathOf(j))
        /\ IsFile(fs, OutDir \o PathOf(j) \o << Dot, "html" >>)

\* C7 as claimed: a request /x where no file or directory x exists and a
\* file x.html does is served x.html with status 200.
C7_Original ==
    \A i \in DOMAIN jobs : FallbackCase(i) => FallbackServed(i)

\* the last component of the text x has no extension: no "." after its
\* first symbol
NoExtension(x) ==
    LET n == SubSeq(x, LastSep(x) + 1, Len(x))
    IN  \A k \in 2..Len(n) : n[k] # Dot

\* C7 amended: a request /x, where x does not contain "..", its last
\* component has no extension, no file or directory x exists and a file
\* x.html does, is served x.html with status 200.
C7_FallbackServed ==
    \A i \in DOMAIN jobs :
        (/\ FallbackCase(i)
         /\ ~ContainsDotDot(PathOf(jobs[i]))
         /\ NoExtension(PathOf(jobs[i])))
        => FallbackServed(i)

\* C7 witness: the request /a/a has been answered with a/a.html.
C7_Witness ==
    \E i \in DOMAIN jobs :
        /\ Responded(jobs[i])
        /\ PathOf(jobs[i]) = << Sep >> \o nA \o << Sep >> \o nA
        /\ jobs[i].opened = Some(<< nSite, nA, nAHtml >>)
        /\ StatusOf(jobs[i]) = 200


\* The request path of job i names an existing directory d of the served
\* directory (itself included) that holds no index.html and has no
\* neighbour called sibling(name of d).
BareDirCase(i, sibling(_)) ==
    LET j == jobs[i]
        d == Lookup(fs, OutDir \o PathOf(j))
    IN  /\ Resolved(j) /\ Parsed(j) /\ ~Raced(j)
        /\ IsSome(d)
        /\ LET n == Unwrap(d)
           IN  /\ Len(n) >= 1 /\ n[1] = nSite /\ fs[n].kind = "dir"
               /\ (n \o << nIndex >>) \notin DOMAIN fs
               /\ (SubSeq(n, 1, Len(n) - 1) \o << sibling(n[Len(n)]) >>) \notin DOMAIN fs

\* <dir>.html, and <dir> with its extension replaced by html
AppendHtml(name)  == name \o << Dot, "html" >>
ReplaceHtml(name) ==
    LET k == LastDot(name)
    IN  (IF k > 1 THEN SubSeq(name, 1, k - 1) ELSE name) \o << Dot, "html" >>

\* A response is 404 exactly when the resolution returned NotFound, and a
\* 404 has no body.
NotFoundIff404 ==
    \A i \in DOMAIN jobs :
        Responded(jobs[i]) =>
            /\ (StatusOf(jobs[i]) = 404) <=> (jobs[i].target = None)
            /\ StatusOf(jobs[i]) = 404 => Unwrap(jobs[i].response).body = None

\* C8 as claimed: a 404 with an empty body is the response exactly when the
\* resolution returned NotFound, and an existing directory with no
\* index.html and no sibling <dir>.html resolves to NotFound.
C8_Original ==
    /\ NotFoundIff404
    /\ \A i \in DOMAIN jobs : BareDirCase(i, AppendHtml) => jobs[i].target = None

\* C8 amended: a 404 with an empty body is the response exactly when the
\* resolution returned NotFound, and an existing directory with no
\* index.html resolves to NotFound when nothing exists at the sibling path
\* got by replacing the extension of the directory's name by html (which is
\* <dir>.html for a name without extension).
C8_NotFound ==
    /\ NotFoundIff404
    /\ \A i \in DOMAIN jobs : BareDirCase(i, ReplaceHtml) => jobs[i].target = None

\* C8 witness: a request for the existing directory a, which has neither
\* index.html nor a sibling a.html, has been answered 404.
C8_Witness ==
    \E i \in DOMAIN jobs :
        /\ Responded(jobs[i])
        /\ BareDirCase(i, ReplaceHtml)
        /\ PathOf(jobs[i]) = << Sep >> \o nA
        /\ Unwrap(jobs[i].response) = [status |-> 404, content_type |-> None, body |-> None]

\* the Content-Type table of the specification
ContentTypeTable ==
    { << "txt", "text/plain; charset=utf8" >>, << "html", TextHtml >>,
      << "htm", TextHtml >>, << "css", "text/css" >>, << "js", "text/javascript" >>,
      << "pdf", "application/pdf" >>, << "zip", "application/zip" >>,
      << "jpg", "image/jpeg" >>, << "jpeg", "image/jpeg" >>,
      << "png", "image/png" >>, << "svg", "image/svg+xml" >> }

\* the header the table gives for a file name: the entry of the text after
\* the last dot of the name, none when there is no such entry
TableHeader(name) ==
    LET k == LastDot(name)
        e == SubSeq(name, k + 1, Len(name))
    IN  IF k > 1 /\ \E row \in ContentTypeTable : << row[1] >> = e
        THEN Some((CHOOSE row \in ContentTypeTable : << row[1] >> = e)[2])
        ELSE None

\* C9: the Content-Type of a 200 response is the table's entry for the
\* extension of the file served, matched exactly; there is no header when
\* the extension is missing, unknown or in another case.
C9_ContentType ==
    \A i \in DOMAIN jobs :
        LET j == jobs[i]
        IN  (Responded(j) /\ StatusOf(j) = 200)
            => Unwrap(j.response).content_type
                  = TableHeader(Unwrap(j.opened)[Len(Unwrap(j.opened))])

\* C9 witness: the file a.PDF has been served without a Content-Type.
C9_Witness ==
    \E i \in DOMAIN jobs :
        /\ Responded(jobs[i])
        /\ StatusOf(jobs[i]) = 200
        /\ jobs[i].opened = Some(<< nSite, nAPDF >>)
        /\ Unwrap(jobs[i].response).content_type = None

\* C10: for every dispatched request exactly one response is written to its
\* sink, and the handler then returns, which frees its worker.
C10_OneResponseThenReturn ==
    \A i \in DOMAIN jobs :
        /\ jobs[i].written <= 1
        /\ jobs[i].written = 1 => jobs[i].stage \in { "responded", "returned" }
        /\ jobs[i].stage = "returned" => jobs[i].written = 1


-----------------------------------------------------------------------------
(* Requests for existing files under fair scheduling *)

\* the request paths of the regular files of the served directory in f
ExistingFileUrls(f) ==
    { << Sep >> \o RelText(n) :
        n \in { m \in DOMAIN f : UnderRoot(m) /\ f[m].kind = "file"
                                 /\ ~ContainsDotDot(RelText(m)) } }

\* line 44, for a client that asks for existing files only
AcceptExisting ==
    /\ pc = "accept"
    /\ Len(jobs) < MaxRequests
    /\ \E url \in ExistingFileUrls(fs), method \in Methods :
           jobs' = Append(jobs, NewJob(url, method))
    /\ pc' = "submit"
    /\ UNCHANGED << fs, stdout, stderr >>

\* a step of a pool thread
WorkerStep == \E i \in DOMAIN jobs : Start(i) \/ Respond(i) \/ Return(i)

\* ENABLED <<\E i \in DOMAIN jobs : Start(i)>>_vars, written as a state
\* predicate: a queued job and a free pool thread
StartEnabled ==
    \E i \in DOMAIN jobs : jobs[i].stage = "queued" /\ Busy + Dead < PoolSize

NextLive ==
    \/ New
    \/ Bind
    \/ Banner
    \/ AcceptExisting
    \/ Submit
    \/ WorkerStep
    \/ JoinAll

\* The main thread and the pool threads keep running, waiting requests are
\* delivered, the files stay in place.  Weak fairness of Start is written
\* with StartEnabled: a job starts only once, so weak fairness of Start
\* says that Start is not enabled forever.
SpecLive ==
    /\ Init
    /\ [][NextLive]_vars
    /\ WF_vars(AcceptExisting)
    /\ WF_vars(Submit)
    /\ []<>(~StartEnabled)
    /\ WF_vars(\E i \in DOMAIN jobs : Respond(i))
    /\ WF_vars(\E i \in DOMAIN jobs : Return(i))
    /\ WF_vars(JoinAll)

\* the i-th request, one for an existing file, waits to be accepted
Waiting(i) ==
    pc = "accept" /\ Len(jobs) = i - 1 /\ ExistingFileUrls(fs) # { }

\* the i-th request has been answered 200 with the content of its file
Served(i) ==
    /\ i \in DOMAIN jobs
    /\ Responded(jobs[i])
    /\ \E n \in DOMAIN fs :
          /\ UnderRoot(n) /\ fs[n].kind = "file"
          /\ PathOf(jobs[i]) = << Sep >> \o RelText(n)
          /\ StatusOf(jobs[i]) = 200
          /\ Unwrap(jobs[i].response).body = Some(fs[n].data)

\* C11: under fair scheduling every waiting request for an existing file is
\* eventually answered 200 with the content of its own file, and the accept
\* loop always comes back from the pool.
C11_AllServed ==
    /\ \A i \in 1..MaxRequests : Waiting(i) ~> Served(i)
    /\ (pc = "join") ~> (pc = "accept")

\* C11 witness: a second request has been served after the first one.
C11_Witness == Len(jobs) = 2 /\ Served(2) /\ jobs[1].stage = "returned"


-----------------------------------------------------------------------------
(* C12 *)

\* C12: every target resolve_file returns is an existing regular file at the
\* moment of resolution, never a directory (a target that is gone was a
\* regular file, removed after the resolution).
C12_TargetIsFile ==
    \A i \in DOMAIN jobs :
        (Resolved(jobs[i]) /\ IsSome(jobs[i].target) /\ ~Raced(jobs[i]))
            => IsFile(fs, Unwrap(jobs[i].target).path)


-----------------------------------------------------------------------------
(* C13 *)

\* the job i has been through resolve_file with a path that passed the
\* guard, and the filesystem is the one the resolution saw
ResolvedCase(i) ==
    LET j == jobs[i]
    IN  Resolved(j) /\ Parsed(j) /\ ~ContainsDotDot(PathOf(j)) /\ ~Raced(j)

\* the node at the candidate path of job i (the request path joined to the
\* served directory)
Named(i) == Lookup(fs, Candidate(PathOf(jobs[i]), OutDir))

\* step a applies: the candidate is a regular file
NamesFile(i) == IsSome(Named(i)) /\ fs[Unwrap(Named(i))].kind = "file"

\* step b applies: the candidate is a directory that contains index.html
NamesIndexedDir(i) ==
    /\ IsSome(Named(i))
    /\ fs[Unwrap(Named(i))].kind = "dir"
    /\ (Unwrap(Named(i)) \o << nIndex >>) \in DOMAIN fs

\* the name ends in ".html"
EndsInHtml(name) ==
    Len(name) >= 2 /\ SubSeq(name, Len(name) - 1, Len(name)) = << Dot, "html" >>

\* C13: resolution is first-match-wins in the order file, directory index,
\* .html fallback: a candidate that is a regular file is the target,
\* whatever else exists; for a candidate that is a directory containing
\* index.html the target is that index.html, whatever sibling exists; only
\* when neither is the case can the target be the .html fallback.
C13_FirstMatchWins ==
    \A i \in DOMAIN jobs :
        ResolvedCase(i) =>
            /\ NamesFile(i) =>
                 IsSome(jobs[i].target) /\ TargetNode(jobs[i]) = Named(i)
            /\ NamesIndexedDir(i) =>
                 /\ IsSome(jobs[i].target)
                 /\ TargetNode(jobs[i]) = Some(Unwrap(Named(i)) \o << nIndex >>)
            /\ (~NamesFile(i) /\ ~NamesIndexedDir(i) /\ IsSome(jobs[i].target)) =>
                 LET t == Unwrap(TargetNode(jobs[i]))
                 IN  EndsInHtml(t[Len(t)])

\* C13 witness: the request /a, a directory with index.html and a sibling
\* a.html, has been answered with a/index.html; or the request /a, a file
\* with a sibling a.html, has been answered with the file a.
C13_Witness ==
    \E i \in DOMAIN jobs :
        /\ Responded(jobs[i])
        /\ PathOf(jobs[i]) = << Sep >> \o nA
        /\ << nSite, nAHtml >> \in DOMAIN fs
        /\ fs[<< nSite, nAHtml >>].kind = "file"
        /\ NamesIndexedDir(i)
        /\ jobs[i].opened = Some(<< nSite, nA, nIndex >>)


-----------------------------------------------------------------------------
(* C14 *)

\* the last component of the request path x, and the text before it
ReqName(x) == SubSeq(x, LastSep(x) + 1, Len(x))
ReqDir(x)  == SubSeq(x, 1, LastSep(x))

\* the fallback path of the specification for the request path x: the
\* extension of the last component replaced by html, html appended when
\* there is none
ReplacedPath(x) == OutDir \o ReqDir(x) \o ReplaceHtml(ReqName(x))

\* the job i reached the .html fallback with a request path that ends in a
\* file name
FallbackReached(i) ==
    /\ ResolvedCase(i)
    /\ ~NamesFile(i) /\ ~NamesIndexedDir(i)
    /\ ReqName(PathOf(jobs[i])) \notin { << >>, << Dot >> }

\* C14: the .html fallback replaces the extension of the candidate and does
\* not append: when the fallback is reached for /d/name.ext the target is
\* /d/name.html if that exists and NotFound otherwise, whether or not
\* /d/name.ext.html exists; for a name without extension it is /d/name.html.
C14_ReplaceNotAppend ==
    \A i \in DOMAIN jobs :
        FallbackReached(i) =>
            LET p == ReplacedPath(PathOf(jobs[i]))
            IN  /\ IsSome(jobs[i].target) <=> Exists(fs, p)
                /\ IsSome(jobs[i].target) => TargetNode(jobs[i]) = Lookup(fs, p)

\* C14 witness: the request /a.a, where a.a does not exist, has been
\* answered with a.html.
C14_Witness ==
    \E i \in DOMAIN jobs :
        /\ Responded(jobs[i])
        /\ FallbackReached(i)
        /\ PathOf(jobs[i]) = << Sep >> \o nAA
        /\ jobs[i].opened = Some(<< nSite, nAHtml >>)
        /\ StatusOf(jobs[i]) = 200


-----------------------------------------------------------------------------
(* C15 *)

\* the handler of job i leaves the match of lines 74-78 in this step
Classified(i) ==
    /\ i \in DOMAIN jobs /\ i \in DOMAIN jobs'
    /\ jobs[i].stage = "responded" /\ jobs'[i].stage = "returned"

\* the lines the error stream gets for a respond result
LinesFor(result) == IF result = "io_error" THEN 1 ELSE 0

\* C15: after the respond, a success logs nothing, a broken pipe logs
\* nothing, any other I/O error writes exactly one line to the error
\* stream, whatever the status (a 404 adds no line of its own); the respond
\* is not retried; nothing else writes to the error stream.
C15_ErrorClassification ==
    [][/\ \A i \in DOMAIN jobs :
            Classified(i) =>
                /\ stderr' = stderr + LinesFor(jobs[i].result)
                /\ jobs[i].written = 1 /\ jobs'[i].written = 1
       /\ \A i \in DOMAIN jobs :
            (i \in DOMAIN jobs' /\ jobs[i].stage \in { "responded", "returned" })
                => jobs'[i].written = jobs[i].written
       /\ stderr' # stderr => \E i \in DOMAIN jobs : Classified(i)]_vars

\* C15 witness: two handlers have returned, each after one respond, and
\* exactly one line is in the error stream: one respond failed with an I/O
\* error that is not a broken pipe, the other did not.
C15_Witness ==
    /\ Len(jobs) = 2
    /\ \A i \in DOMAIN jobs : jobs[i].stage = "returned" /\ jobs[i].written = 1
    /\ stderr = 1


-----------------------------------------------------------------------------
(* C16 *)

\* C16: a request in handling occupies one pool thread and leaves the others
\* and the loop alone: while it is in handling (and stays there, the client
\* being slow) and fewer than PoolSize threads are taken, the main thread
\* can accept the next request or hand the one it holds to the pool.
C16_StalledRequestAlone ==
    \A i \in DOMAIN jobs :
        (Running(jobs[i]) /\ Busy + Dead < PoolSize /\ Len(jobs) < MaxRequests)
            => ENABLED (Accept \/ Submit)


-----------------------------------------------------------------------------
(* More requests than pool threads *)

MaxBurst == 17     \* requests accepted in one run of SpecBurst

\* line 44: the next of MaxBurst requests for "/"
AcceptBurst ==
    /\ pc = "accept"
    /\ Len(jobs) < MaxBurst
    /\ jobs' = Append(jobs, NewJob(<< Sep >>, "GET"))
    /\ pc' = "submit"
    /\ UNCHANGED << fs, stdout, stderr >>

InitBurst == Init /\ fs = FsExample

NextBurst ==
    \/ New
    \/ Bind
    \/ Banner
    \/ AcceptBurst
    \/ Submit
    \/ WorkerStep
    \/ JoinAll

SpecBurst == InitBurst /\ [][NextBurst]_vars

\* C17: in every reachable state at most PoolSize (16) requests are being
\* handled, however many have arrived.
C17_BoundedConcurrency == Busy <= PoolSize

\* C17 witness: more requests than pool threads have arrived and the last of
\* them is being handled.
C17_Witness ==
    /\ Len(jobs) > PoolSize
    /\ Running(jobs[Len(jobs)])


-----------------------------------------------------------------------------
(* C18 *)

\* the handling of the job has started: a pool thread has taken it
Started(j) == j.stage \notin { "accepted", "queued" }

\* C18: requests are dispatched in arrival order: the handling of a request
\* never starts before every request accepted earlier has been submitted to
\* the pool.
C18_DispatchInArrivalOrder ==
    \A i, k \in DOMAIN jobs :
        (i < k /\ Started(jobs[k])) => jobs[i].stage # "accepted"

\* C18 witness: the handling of the second request has started, the first
\* one having been submitted and handled before.
C18_Witness ==
    /\ Len(jobs) = 2
    /\ jobs[2].stage = "resolved"
    /\ jobs[1].stage = "returned"


-----------------------------------------------------------------------------
(* C19 *)

\* the response that the request path and the filesystem f determine
ResponseFor(path, f) ==
    LET t == resolve_file(f, path, OutDir)
    IN  IF ~IsSome(t)
        THEN [status |-> 404, content_type |-> None, body |-> None]
        ELSE [status |-> 200,
              content_type |-> Unwrap(t).content_type,
              body |-> IF IsFile(f, Unwrap(t).path)
                       THEN Some(f[Unwrap(Lookup(f, Unwrap(t).path))].data)
                       ELSE None]

\* a step of the handler of job i
HandlerStep(i) ==
    /\ i \in DOMAIN jobs /\ i \in DOMAIN jobs'
    /\ jobs[i].stage \in { "queued", "resolved", "responded" }
    /\ jobs'[i] # jobs[i]

\* C19: the response to a request is the one its own path and the
\* filesystem determine, whatever its method and whatever other requests
\* there were (the served directory is the constant OutDir); a step of a
\* handler changes neither the filesystem nor the state of another request.
C19_NonInterference ==
    /\ [](\A i \in DOMAIN jobs :
            (Responded(jobs[i]) /\ ~Raced(jobs[i]))
                => Unwrap(jobs[i].response) = ResponseFor(PathOf(jobs[i]), fs))
    /\ [][\A i \in DOMAIN jobs :
            HandlerStep(i) =>
                /\ fs' = fs
                /\ \A k \in DOMAIN jobs \ { i } : jobs'[k] = jobs[k]]_vars

\* C19 witness: a POST request, the second of the run, has been answered
\* with the index page.
C19_Witness ==
    /\ Len(jobs) = 2
    /\ Responded(jobs[2])
    /\ jobs[2].method = "POST"
    /\ PathOf(jobs[2]) = << Sep >>
    /\ Unwrap(jobs[2].response) =
         [status |-> 200, content_type |-> Some(TextHtml), body |-> Some("Hello")]


-----------------------------------------------------------------------------
(* C20 *)

\* the listening socket exists: Server::http has returned it
Listening == pc \in { "bound", "exit_banner", "accept", "submit", "join", "panicked" }

\* the loop of lines 44-50 has been entered
InLoop == pc \in { "accept", "submit", "join", "panicked" }

\* C20: a malformed address fails in the construction, before any socket is
\* bound; a failed bind ends run() before any request is accepted; the
\* startup line is written once, after the bind has succeeded and before the
\* first request is accepted, and never again.
C20_StartupOrdering ==
    /\ [](/\ stdout <= 1
          /\ pc = "exit_new" => (jobs = << >> /\ stdout = 0)
          /\ pc = "exit_bind" => (jobs = << >> /\ stdout = 0)
          /\ stdout = 1 => Listening
          /\ InLoop => stdout = 1
          /\ jobs # << >> => (InLoop /\ stdout = 1))
    /\ [][/\ pc' = "exit_new" => (pc = "new" /\ ~Listening)
          /\ pc' = "exit_bind" => pc = "constructed"
          /\ stdout' # stdout => (pc = "bound" /\ stdout = 0 /\ jobs = << >>)]_vars

\* C20 witness: the first request has been handed to the pool, the startup
\* line having been written once.
C20_Witness ==
    /\ Len(jobs) = 1
    /\ jobs[1].stage = "queued"
    /\ stdout = 1

====
